---- MODULE Spec2Model ----
(***************************************************************************)
(* Scroll-synced section labels (BenGurWaves/davidsfilmmaking).            *)
(*                                                                         *)
(*   src/info.js            single label, eased three-phase mapping        *)
(*   src/unnamed/part_000   two-mode variant (linear / hold profile)       *)
(*   src/unnamed/part_002   variant without cache (offsetTop on each run)  *)
(*   src/unnamed/part_003   fade-title script (lines 1-25) and dual-label  *)
(*                          variant (current / next span, lines 41-216)    *)
(*                                                                         *)
(* Spec and FairSpec are the state machine of info.js, SpecDual that of    *)
(* the dual-label variant, SpecMap applies the progress-to-offset mappings *)
(* on their own, SpecPage loads info.js, part_000 or part_002 on a page    *)
(* that may lack the label or the sections, SpecTitle is the fade-title    *)
(* script with its timers.                                                 *)
(*                                                                         *)
(* JavaScript numbers are modelled as exact rationals <<n, d>> (d > 0, in  *)
(* lowest terms); every value the scripts compute here is a quotient of    *)
(* small integers, so the arithmetic is exact.                             *)
(***************************************************************************)
EXTENDS Integers, Sequences, FiniteSets, TLC

VARIABLES
  scrollY,           \* window.scrollY
  innerHeight,       \* window.innerHeight
  sections,          \* the .page-section elements as laid out now
  cache,             \* info.js: let cache
  labelVisible,      \* info.js: labelEl.classList contains 'visible'
  labelText,         \* info.js: labelEl.textContent
  labelTransform,    \* info.js: labelEl.style.transform
  ticking,           \* info.js: let ticking
  rafQueue,          \* frame callbacks registered and not yet run
  chosenIndex,       \* info.js update(): chosenIndex of the latest run
  evalScrollY,       \* info.js update(): window.scrollY as the latest run read it
  signalsLeft,       \* scroll / resize signals the environment still sends
  scrollsSinceFrame, \* scroll signals since the latest animation frame
  resizesSinceFrame, \* resize signals since the latest animation frame
  evalsSinceFrame,   \* update() runs the listeners made since the latest frame
  frameScrolls,      \* scroll signals that preceded the latest frame
  frameEvals,        \* update() runs made by the latest frame's callbacks
  mapP,              \* a progress value handed to the mapping functions
  mapQ,              \* a second progress value, for comparing two offsets
  infoOut,           \* info.js: the offsets mapped for mapP and mapQ
  holdOut,           \* part_000: holdMapProgressToPx(mapP), holdMapProgressToPx(mapQ)
  dualSections,      \* part_003: the .page-section elements and their paragraphs
  windows,           \* part_003: let windows
  dualStartPx,       \* part_003: const startPx
  dualEndPx,         \* part_003: const endPx
  running,           \* part_003: let running
  currentSpan,       \* part_003: #leftLabelCurrent (text, opacity, transform)
  nextSpan,          \* part_003: #leftLabelNext (text, opacity, transform)
  primaryIndex,      \* part_003 update(): primaryIndex of the latest run
  script,            \* the label script the page loads
  labelEl,           \* TRUE iff document.getElementById('leftLabel') is not null
  legacyInfoNav,     \* part_000: TRUE iff document.querySelector('.info-nav') is not null
  HOLD,              \* part_000: const HOLD (the four thresholds)
  listeners,         \* the events the script has a listener registered for
  updateRuns,        \* calls of update() since the script was loaded
  thrown,            \* TRUE iff the script has thrown an uncaught TypeError
  holdCalls,         \* part_000: calls of holdMapProgressToPx since loading
  labelOpacity,      \* part_000: leftLabelEl.style.opacity
  legacySpans,       \* part_000: let legacySpans (text, active, transform)
  titleSections,     \* fade-title script: the .info-section elements
  dynamicTitle,      \* fade-title script: #dynamic-title (textContent, classList)
  timers             \* fade-title script: setTimeout callbacks pending, oldest first

(***************************************************************************)
(* Bounds of the model.                                                    *)
(***************************************************************************)
MaxSignals == 3
PGrid == 20        \* progress values are the multiples of 1/PGrid

ViewportHeights == {20, 40}
ScrollYs == {0, 2, 15, 60}
FirstTops == {0, 12}
FirstHeights == {0, 10}
SecondTops == {10, 14}
SecondHeights == {20}
Titles == <<"A", "B">>
DualScrollYs == {0, 80, 110, 150, 400}
DualHeights == {40, 100}
DualGaps == {0, 60}
DualPads == {0, 15}
DualTitles == <<"A", "B", "C">>

(***************************************************************************)
(* Exact arithmetic on JavaScript numbers.                                 *)
(***************************************************************************)
Abs(n) == IF n < 0 THEN -n ELSE n

RECURSIVE GCD(_, _)
GCD(a, b) == IF b = 0 THEN a ELSE GCD(b, a % b)

Rat(n, d) ==
  LET g == GCD(Abs(n), Abs(d))
      s == IF d < 0 THEN -1 ELSE 1
  IN  <<(s * n) \div g, (s * d) \div g>>

Num(n) == <<n, 1>>

RatAdd(x, y) == Rat(x[1] * y[2] + y[1] * x[2], x[2] * y[2])

RatSub(x, y) == Rat(x[1] * y[2] - y[1] * x[2], x[2] * y[2])

RatMul(x, y) == Rat(x[1] * y[1], x[2] * y[2])

RatDiv(x, y) == Rat(x[1] * y[2], x[2] * y[1])

\* a/b <= c/e for b, e > 0, by comparing the continued-fraction expansions
RECURSIVE LeqFrac(_, _, _, _)
LeqFrac(a, b, c, e) ==
  LET qa == a \div b
      qc == c \div e
      ra == a - qa * b
      rc == c - qc * e
  IN  IF qa # qc THEN qa < qc
      ELSE IF ra = 0 THEN TRUE
      ELSE IF rc = 0 THEN FALSE
      ELSE LeqFrac(e, rc, b, ra)

RatLeq(x, y) == LeqFrac(x[1], x[2], y[1], y[2])

RatLt(x, y) == ~RatLeq(y, x)

RatAbs(x) == <<Abs(x[1]), x[2]>>

RatMax(x, y) == IF RatLeq(x, y) THEN y ELSE x

RatMin(x, y) == IF RatLeq(x, y) THEN x ELSE y

\* Infinity, and the comparison dist < bestDistance against it
Infinity == <<1, 0>>

DistLt(x, y) == IF y = Infinity THEN x # Infinity ELSE x # Infinity /\ RatLt(x, y)

(***************************************************************************)
(* src/info.js: configuration and helpers.                                 *)
(***************************************************************************)
HOLD_START == Rat(18, 100)
HOLD_END == Rat(82, 100)
START_OFFSET_VH == 35
END_OFFSET_VH == -45
PROGRESS_CLAMP_MIN == Rat(-25, 100)
PROGRESS_CLAMP_MAX == Rat(125, 100)

clamp(v, a, b) == RatMax(a, RatMin(b, v))

ease(t) == RatMul(RatMul(t, t), RatSub(Num(3), RatMul(Num(2), t)))

vhToPx(vh, ih) == Rat(ih * vh, 100)

\* const viewportCenterY = window.scrollY + window.innerHeight / 2
viewportCenterY(sy, ih) == RatAdd(Num(sy), Rat(ih, 2))

\* one entry of rebuildCache(): rect.top is relative to the viewport
CacheEntry(sec, sy) ==
  LET rectTop == sec.top - sy
  IN  [top |-> sy + rectTop,
       height |-> IF sec.height > 1 THEN sec.height ELSE 1,
       title |-> sec.title]

rebuildCache(secs, sy) == [i \in 1..Len(secs) |-> CacheEntry(secs[i], sy)]

\* (viewportCenterY - top) / height
pRaw(entry, vc) == RatDiv(RatSub(vc, Num(entry.top)), Num(entry.height))

Progress(entry, vc) == clamp(pRaw(entry, vc), PROGRESS_CLAMP_MIN, PROGRESS_CLAMP_MAX)

InUnit(p) == RatLeq(Num(0), p) /\ RatLeq(p, Num(1))

\* The loop without its break: a later section in [0,1] replaces an earlier one
RECURSIVE SelectLoop_lastMatch(_, _, _, _, _)
SelectLoop_lastMatch(c, vc, i, chosen, best) ==
  IF i >= Len(c) THEN chosen
  ELSE LET p == Progress(c[i + 1], vc)
       IN  IF InUnit(p) THEN SelectLoop_lastMatch(c, vc, i + 1, i, Num(0))
           ELSE LET dist == RatAbs(RatSub(p, Rat(1, 2)))
                IN  IF DistLt(dist, best)
                    THEN SelectLoop_lastMatch(c, vc, i + 1, i, dist)
                    ELSE SelectLoop_lastMatch(c, vc, i + 1, chosen, best)

\* The selection loop of update(): i is the JavaScript index (from 0),
\* chosen the chosenIndex so far (-1 for null), best the bestDistance so far.
RECURSIVE SelectLoop(_, _, _, _, _)
SelectLoop(c, vc, i, chosen, best) ==
  IF i >= Len(c) THEN chosen
  ELSE LET p == Progress(c[i + 1], vc)
       IN  IF InUnit(p) THEN i
           ELSE LET dist == RatAbs(RatSub(p, Rat(1, 2)))
                IN  IF DistLt(dist, best)
                    THEN SelectLoop(c, vc, i + 1, i, dist)
                    ELSE SelectLoop(c, vc, i + 1, chosen, best)

SelectSection(c, vc) == SelectLoop(c, vc, 0, -1, Infinity)

\* The mapping with t = ease(p / HOLD_START) left unclamped
MapProgress_unclampedT(p, ih) ==
  LET startPx == vhToPx(START_OFFSET_VH, ih)
      endPx == vhToPx(END_OFFSET_VH, ih)
  IN  IF RatLt(p, HOLD_START)
      THEN LET t == ease(RatDiv(p, HOLD_START))
           IN  RatAdd(startPx, RatMul(RatSub(Num(0), startPx), t))
      ELSE IF RatLeq(HOLD_START, p) /\ RatLeq(p, HOLD_END)
      THEN Num(0)
      ELSE LET t == ease(RatDiv(RatSub(p, HOLD_END), RatSub(Num(1), HOLD_END)))
           IN  RatAdd(Num(0), RatMul(RatSub(endPx, Num(0)), t))

\* Map p to translateY in px (three phases, eased ramps)
MapProgress(p, ih) ==
  LET startPx == vhToPx(START_OFFSET_VH, ih)
      endPx == vhToPx(END_OFFSET_VH, ih)
  IN  IF RatLt(p, HOLD_START)
      THEN LET t == ease(clamp(RatDiv(p, HOLD_START), Num(0), Num(1)))
           IN  RatAdd(startPx, RatMul(RatSub(Num(0), startPx), t))
      ELSE IF RatLeq(HOLD_START, p) /\ RatLeq(p, HOLD_END)
      THEN Num(0)
      ELSE LET t == ease(clamp(RatDiv(RatSub(p, HOLD_END), RatSub(Num(1), HOLD_END)),
                               Num(0), Num(1)))
           IN  RatAdd(Num(0), RatMul(RatSub(endPx, Num(0)), t))

NoTransform == <<>>

\* A label span of part_003 before the script has written to it
EmptySpan == [text |-> "", opacity |-> "", transform |-> NoTransform]

\* The guard reduced to !chosen: an untitled section is shown like any other
Present_showsUntitled(c, vc, idx, ih, text) ==
  IF idx = -1
  THEN [visible |-> FALSE, text |-> text, transform |-> NoTransform,
        chosenIndex |-> idx]
  ELSE [visible |-> TRUE, text |-> c[idx + 1].title,
        transform |-> MapProgress(Progress(c[idx + 1], vc), ih),
        chosenIndex |-> idx]

\* update() from line 75 on: hide the label, or show the chosen title and
\* place it; idx is chosenIndex (-1 when chosen is null)
Present(c, vc, idx, ih, text) ==
  IF idx = -1 \/ c[idx + 1].title = ""
  THEN [visible |-> FALSE, text |-> text, transform |-> NoTransform,
        chosenIndex |-> idx]
  ELSE [visible |-> TRUE, text |-> c[idx + 1].title,
        transform |-> MapProgress(Progress(c[idx + 1], vc), ih),
        chosenIndex |-> idx]

\* update(): the label after one evaluation, with the index it chose
Update(c, sy, ih, text) ==
  LET vc == viewportCenterY(sy, ih)
  IN  Present(c, vc, SelectSection(c, vc), ih, text)

\* onScroll() without the ticking test: every signal requests a frame
onScroll_unthrottled(t, q) == [ticking |-> TRUE, rafQueue |-> q + 1]

\* onScroll(): the throttle; q is the number of registered frame callbacks
onScroll(t, q) ==
  IF ~t THEN [ticking |-> TRUE, rafQueue |-> q + 1]
  ELSE [ticking |-> t, rafQueue |-> q]

\* onResize() deferring its update() to the next frame, as onScroll() does
onResize_throttled(secs, sy, ih, text, t, q) ==
  [cache |-> rebuildCache(secs, sy),
   label |-> [visible |-> FALSE, text |-> text, transform |-> NoTransform,
              chosenIndex |-> -1],
   evals |-> 0,
   ticking |-> TRUE, rafQueue |-> IF t THEN q ELSE q + 1]

\* onResize(): rebuildCache(); update(); it neither reads nor writes ticking
onResize(secs, sy, ih, text, t, q) ==
  LET c == rebuildCache(secs, sy)
  IN  [cache |-> c, label |-> Update(c, sy, ih, text), evals |-> 1,
       ticking |-> t, rafQueue |-> q]

\* The callback without its last statement: ticking is never cleared
frameCallback_keepsTicking(c, sy, ih, text) ==
  [label |-> Update(c, sy, ih, text), ticking |-> TRUE]

\* The callback onScroll() hands to requestAnimationFrame: update(); ticking = false
frameCallback(c, sy, ih, text) ==
  [label |-> Update(c, sy, ih, text), ticking |-> FALSE]

(***************************************************************************)
(* src/unnamed/part_000: the two-mode variant, hold profile.  Its vhToPx    *)
(* (line 71) is the expression of info.js.                                 *)
(***************************************************************************)
HOLD_ENTRY_START == Rat(8, 100)
HOLD_HOLD_START == Rat(25, 100)
HOLD_HOLD_END == Rat(75, 100)
HOLD_EXIT_END == Rat(92, 100)
HOLD_START_OFFSET_VH == 35
HOLD_END_OFFSET_VH == -45

\* const HOLD as the file ships it
ShippedHOLD ==
  [ENTRY_START |-> HOLD_ENTRY_START, HOLD_START |-> HOLD_HOLD_START,
   HOLD_END |-> HOLD_HOLD_END, EXIT_END |-> HOLD_EXIT_END]

\* holdMapProgressToPx(p), reading the thresholds of the configuration h
holdMapProgressToPxWith(h, p, ih) ==
  LET startPx == vhToPx(HOLD_START_OFFSET_VH, ih)
      endPx == vhToPx(HOLD_END_OFFSET_VH, ih)
  IN  IF RatLeq(p, h.ENTRY_START) THEN startPx
      ELSE IF RatLt(p, h.HOLD_START)
      THEN LET t == RatDiv(RatSub(p, h.ENTRY_START),
                           RatSub(h.HOLD_START, h.ENTRY_START))
           IN  RatAdd(startPx, RatMul(RatSub(Num(0), startPx), t))
      ELSE IF RatLeq(p, h.HOLD_END) THEN Num(0)
      ELSE IF RatLt(p, h.EXIT_END)
      THEN LET t == RatDiv(RatSub(p, h.HOLD_END),
                           RatSub(h.EXIT_END, h.HOLD_END))
           IN  RatAdd(Num(0), RatMul(RatSub(endPx, Num(0)), t))
      ELSE endPx

\* The hold profile of the shipped thresholds with the smoothstep applied on
\* both ramps
holdMapProgressToPx_eased(p, ih) ==
  LET startPx == vhToPx(HOLD_START_OFFSET_VH, ih)
      endPx == vhToPx(HOLD_END_OFFSET_VH, ih)
  IN  IF RatLeq(p, HOLD_ENTRY_START) THEN startPx
      ELSE IF RatLt(p, HOLD_HOLD_START)
      THEN LET t == ease(RatDiv(RatSub(p, HOLD_ENTRY_START),
                                RatSub(HOLD_HOLD_START, HOLD_ENTRY_START)))
           IN  RatAdd(startPx, RatMul(RatSub(Num(0), startPx), t))
      ELSE IF RatLeq(p, HOLD_HOLD_END) THEN Num(0)
      ELSE IF RatLt(p, HOLD_EXIT_END)
      THEN LET t == ease(RatDiv(RatSub(p, HOLD_HOLD_END),
                                RatSub(HOLD_EXIT_END, HOLD_HOLD_END)))
           IN  RatAdd(Num(0), RatMul(RatSub(endPx, Num(0)), t))
      ELSE endPx

\* Map progress p into px using hold profile
holdMapProgressToPx(p, ih) == holdMapProgressToPxWith(ShippedHOLD, p, ih)

(***************************************************************************)
(* The documents the page can show: sections in document order.            *)
(***************************************************************************)
SectionAt(i, tops, heights) ==
  {[top |-> t, height |-> h, title |-> ttl] :
     t \in tops, h \in heights, ttl \in {"", Titles[i]}}

Layouts ==
  {<<a, b>> : a \in SectionAt(1, FirstTops, FirstHeights),
              b \in SectionAt(2, SecondTops, SecondHeights)}

Ordered(secs) == \A i \in 1..(Len(secs) - 1) : secs[i].top <= secs[i + 1].top

Documents == {d \in Layouts : Ordered(d)}

infoVars == <<sections, cache, labelVisible, labelText, labelTransform,
              ticking, rafQueue, chosenIndex, evalScrollY, signalsLeft,
              scrollsSinceFrame, resizesSinceFrame, evalsSinceFrame,
              frameScrolls, frameEvals>>

mapVars == <<mapP, mapQ, infoOut, holdOut>>

dualVars == <<dualSections, windows, dualStartPx, dualEndPx, running, currentSpan,
              nextSpan, primaryIndex>>

pageVars == <<script, labelEl, legacyInfoNav, HOLD, listeners, updateRuns, thrown,
              holdCalls, labelOpacity, legacySpans>>

titleVars == <<titleSections, dynamicTitle, timers>>

restVars == <<pageVars, titleVars>>

vars == <<scrollY, innerHeight, infoVars, mapVars, dualVars, pageVars, titleVars>>

\* The parts of the state a script does not touch
InfoIdle ==
  /\ sections = <<>>
  /\ cache = <<>>
  /\ labelVisible = FALSE
  /\ labelText = ""
  /\ labelTransform = NoTransform
  /\ ticking = FALSE
  /\ rafQueue = 0
  /\ chosenIndex = -1
  /\ evalScrollY = 0
  /\ signalsLeft = 0
  /\ scrollsSinceFrame = 0
  /\ resizesSinceFrame = 0
  /\ evalsSinceFrame = 0
  /\ frameScrolls = 0
  /\ frameEvals = 0

NotMapped == <<>>

MapIdle ==
  /\ mapP = Num(0)
  /\ mapQ = Num(0)
  /\ infoOut = NotMapped
  /\ holdOut = NotMapped

DualIdle ==
  /\ dualSections = <<>>
  /\ windows = <<>>
  /\ dualStartPx = Num(0)
  /\ dualEndPx = Num(0)
  /\ running = FALSE
  /\ currentSpan = EmptySpan
  /\ nextSpan = EmptySpan
  /\ primaryIndex = -1

\* The fade-title script is not on the page
TitleIdle ==
  /\ titleSections = <<>>
  /\ dynamicTitle = [textContent |-> "", classList |-> {}]
  /\ timers = <<>>

\* The state only the page-loading specification follows, for a page of
\* info.js with its label and sections present
PageIdle ==
  /\ script = "info.js"
  /\ labelEl = TRUE
  /\ legacyInfoNav = FALSE
  /\ HOLD = ShippedHOLD
  /\ listeners = {"scroll", "resize"}
  /\ updateRuns = 0
  /\ thrown = FALSE
  /\ holdCalls = 0
  /\ labelOpacity = ""
  /\ legacySpans = <<>>

\* init(): rebuildCache(); update(); then the two listeners are registered
Init ==
  /\ scrollY \in ScrollYs
  /\ innerHeight \in ViewportHeights
  /\ sections \in Documents
  /\ cache = rebuildCache(sections, scrollY)
  /\ \E u \in {Update(cache, scrollY, innerHeight, "")} :
         /\ labelVisible = u.visible
         /\ labelText = u.text
         /\ labelTransform = u.transform
         /\ chosenIndex = u.chosenIndex
  /\ ticking = FALSE
  /\ rafQueue = 0
  /\ signalsLeft = MaxSignals
  /\ scrollsSinceFrame = 0
  /\ resizesSinceFrame = 0
  /\ evalsSinceFrame = 0
  /\ evalScrollY = scrollY
  /\ frameScrolls = 0
  /\ frameEvals = 0
  /\ MapIdle
  /\ DualIdle
  /\ PageIdle
  /\ TitleIdle

\* The page is scrolled to y and the scroll listener runs.
Scroll(y) ==
  /\ signalsLeft > 0
  /\ y # scrollY
  /\ scrollY' = y
  /\ \E s \in {onScroll(ticking, rafQueue)} :
         /\ ticking' = s.ticking
         /\ rafQueue' = s.rafQueue
  /\ signalsLeft' = signalsLeft - 1
  /\ scrollsSinceFrame' = scrollsSinceFrame + 1
  /\ UNCHANGED <<innerHeight, sections, cache, labelVisible, labelText,
                 labelTransform, chosenIndex, evalScrollY, resizesSinceFrame,
                 evalsSinceFrame, frameScrolls, frameEvals, mapVars, dualVars, restVars>>

\* The window is resized: the viewport height and the layout change, and the
\* resize listener runs.
Resize(ih, secs) ==
  /\ signalsLeft > 0
  /\ innerHeight' = ih
  /\ sections' = secs
  /\ \E r \in {onResize(secs, scrollY, ih, labelText, ticking, rafQueue)} :
         /\ cache' = r.cache
         /\ labelVisible' = r.label.visible
         /\ labelText' = r.label.text
         /\ labelTransform' = r.label.transform
         /\ chosenIndex' = r.label.chosenIndex
         /\ evalScrollY' = IF r.evals > 0 THEN scrollY ELSE evalScrollY
         /\ evalsSinceFrame' = evalsSinceFrame + r.evals
         /\ ticking' = r.ticking
         /\ rafQueue' = r.rafQueue
  /\ signalsLeft' = signalsLeft - 1
  /\ resizesSinceFrame' = resizesSinceFrame + 1
  /\ UNCHANGED <<scrollY, scrollsSinceFrame, frameScrolls, frameEvals, mapVars,
                 dualVars, restVars>>

\* An animation frame: every registered callback runs, in the order registered.
Frame ==
  /\ \E f \in {frameCallback(cache, scrollY, innerHeight, labelText)} :
         IF rafQueue > 0
         THEN /\ labelVisible' = f.label.visible
              /\ labelText' = f.label.text
              /\ labelTransform' = f.label.transform
              /\ chosenIndex' = f.label.chosenIndex
              /\ evalScrollY' = scrollY
              /\ ticking' = f.ticking
         ELSE UNCHANGED <<labelVisible, labelText, labelTransform,
                          chosenIndex, evalScrollY, ticking>>
  /\ rafQueue' = 0
  /\ frameEvals' = rafQueue
  /\ evalsSinceFrame' = 0
  /\ frameScrolls' = scrollsSinceFrame
  /\ scrollsSinceFrame' = 0
  /\ resizesSinceFrame' = 0
  /\ UNCHANGED <<scrollY, innerHeight, sections, cache, signalsLeft, mapVars,
                 dualVars, restVars>>

Next ==
  \/ \E y \in ScrollYs : Scroll(y)
  \/ \E ih \in ViewportHeights, secs \in Documents : Resize(ih, secs)
  \/ Frame

Spec == Init /\ [][Next]_vars

(***************************************************************************)
(* src/unnamed/part_003, lines 41-216: the dual-label variant.             *)
(***************************************************************************)
DUAL_START_OFFSET_VH == 35
DUAL_END_OFFSET_VH == -45
EXTRA_MARGIN == Rat(5, 100)

\* const vhToPx = (vh) => (window.innerHeight * vh) / 100
dualVhToPx(vh, ih) == Rat(ih * vh, 100)

dualClamp(v, a, b) == RatMax(a, RatMin(b, v))

\* One element of computeWindows(): sec gives the document positions of the
\* first paragraph's top and the last paragraph's bottom, and offsetHeight.
computeWindow(sec, sy, ih) ==
  LET firstRectTop == sec.firstTop - sy
      lastRectBottom == sec.lastBottom - sy
      absFirstTop == sy + firstRectTop
      absLastBottom == sy + lastRectBottom
      start == RatSub(Num(absFirstTop), Rat(ih, 2))
      end == RatSub(Num(absLastBottom), Rat(ih, 2))
      half == RatMul(Num(sec.offsetHeight), Rat(1, 2))
      safeEnd == IF RatLt(RatAdd(start, Num(10)), end) THEN end
                 ELSE RatAdd(start, RatMax(Num(100), half))
      margin == RatMul(EXTRA_MARGIN, Num(sec.offsetHeight))
  IN  [title |-> sec.title,
       start |-> RatSub(start, margin),
       end |-> RatAdd(safeEnd, margin)]

computeWindows(secs, sy, ih) ==
  [i \in 1..Len(secs) |-> computeWindow(secs[i], sy, ih)]

\* mapping progress -> translateY px, with the startPx and endPx of lines 100-101
mapProgressToPx(p) == RatAdd(dualStartPx, RatMul(RatSub(dualEndPx, dualStartPx), p))

InWindow(w, vc) == RatLeq(w.start, vc) /\ RatLeq(vc, w.end)

\* The forEach of update(): i is the JavaScript index, primary the primaryIndex
\* so far, best the bestDist so far.
RECURSIVE PrimaryLoop(_, _, _, _, _)
PrimaryLoop(ws, vc, i, primary, best) ==
  IF i >= Len(ws) THEN primary
  ELSE LET w == ws[i + 1]
           p1 == IF InWindow(w, vc) THEN i ELSE primary
           centerOfWindow == RatDiv(RatAdd(w.start, w.end), Num(2))
           dist == RatAbs(RatSub(centerOfWindow, vc))
       IN  IF DistLt(dist, best)
           THEN PrimaryLoop(ws, vc, i + 1, IF p1 = -1 THEN i ELSE p1, dist)
           ELSE PrimaryLoop(ws, vc, i + 1, p1, best)

FindPrimary(ws, vc) == PrimaryLoop(ws, vc, 0, -1, Infinity)

\* const computeP = (w) => ...
computeP(w, vc) ==
  LET denom == RatSub(w.end, w.start)
  IN  IF RatLeq(denom, Num(0)) THEN Num(0)
      ELSE dualClamp(RatDiv(RatSub(vc, w.start), denom), Num(0), Num(1))

\* update() from line 136 on, for the primaryIndex found
DualPresent(ws, vc, idx, cur, nxt) ==
  IF idx = -1
  THEN [current |-> [cur EXCEPT !.opacity = "0"],
        next |-> [nxt EXCEPT !.opacity = "0"],
        primaryIndex |-> idx]
  ELSE [current |-> [text |-> ws[idx + 1].title, opacity |-> "1",
                     transform |-> mapProgressToPx(computeP(ws[idx + 1], vc))],
        next |-> IF idx + 1 < Len(ws)
                 THEN [text |-> ws[idx + 2].title, opacity |-> "1",
                       transform |-> mapProgressToPx(computeP(ws[idx + 2], vc))]
                 ELSE [nxt EXCEPT !.opacity = "0"],
        primaryIndex |-> idx]

\* update(): both spans after one evaluation, with the primaryIndex it chose
DualUpdate(ws, sy, ih, cur, nxt) ==
  LET vc == RatAdd(Num(sy), Rat(ih, 2))
  IN  DualPresent(ws, vc, FindPrimary(ws, vc), cur, nxt)

\* onScroll(): q is the number of registered frame callbacks
dualOnScroll(r, q) ==
  IF ~r THEN [running |-> TRUE, rafQueue |-> q + 1]
  ELSE [running |-> r, rafQueue |-> q]

\* onResize(): rebuild(); update(); startPx and endPx are left as captured
dualOnResize(secs, sy, ih, cur, nxt) ==
  LET ws == computeWindows(secs, sy, ih)
  IN  [windows |-> ws, spans |-> DualUpdate(ws, sy, ih, cur, nxt)]

\* The documents of the dual-label page: three sections, each a block of
\* paragraphs inset by pad, separated by gap.
DualSection(i, top, h, pad) ==
  [firstTop |-> top + pad, lastBottom |-> top + h - pad, offsetHeight |-> h,
   title |-> DualTitles[i]]

DualDocuments ==
  {<<DualSection(1, 0, h1, pad),
     DualSection(2, h1 + gap, h2, pad),
     DualSection(3, h1 + gap + h2 + gap, 100, pad)>> :
     h1 \in DualHeights, h2 \in DualHeights, gap \in DualGaps, pad \in DualPads}

\* The script as loaded: startPx, endPx and windows are computed (lines
\* 100-109), then rebuild(); update(); and the listeners are registered.
InitDual ==
  /\ scrollY \in DualScrollYs
  /\ innerHeight \in ViewportHeights
  /\ dualSections \in DualDocuments
  /\ dualStartPx = dualVhToPx(DUAL_START_OFFSET_VH, innerHeight)
  /\ dualEndPx = dualVhToPx(DUAL_END_OFFSET_VH, innerHeight)
  /\ windows = computeWindows(dualSections, scrollY, innerHeight)
  /\ \E u \in {DualUpdate(windows, scrollY, innerHeight, EmptySpan, EmptySpan)} :
       /\ currentSpan = u.current
       /\ nextSpan = u.next
       /\ primaryIndex = u.primaryIndex
  /\ running = FALSE
  /\ sections = <<>>
  /\ cache = <<>>
  /\ labelVisible = FALSE
  /\ labelText = ""
  /\ labelTransform = NoTransform
  /\ ticking = FALSE
  /\ rafQueue = 0
  /\ chosenIndex = -1
  /\ evalScrollY = scrollY
  /\ signalsLeft = MaxSignals
  /\ scrollsSinceFrame = 0
  /\ resizesSinceFrame = 0
  /\ evalsSinceFrame = 0
  /\ frameScrolls = 0
  /\ frameEvals = 0
  /\ MapIdle
  /\ PageIdle
  /\ TitleIdle

dualQuiet == <<sections, cache, labelVisible, labelText, labelTransform, ticking,
               chosenIndex, scrollsSinceFrame, evalsSinceFrame, frameScrolls,
               frameEvals, mapVars, restVars>>

\* The page is scrolled to y and the scroll listener runs.
DualScroll(y) ==
  /\ signalsLeft > 0
  /\ y # scrollY
  /\ scrollY' = y
  /\ \E s \in {dualOnScroll(running, rafQueue)} :
       /\ running' = s.running
       /\ rafQueue' = s.rafQueue
  /\ signalsLeft' = signalsLeft - 1
  /\ UNCHANGED <<innerHeight, dualSections, windows, dualStartPx, dualEndPx, currentSpan,
                 nextSpan, primaryIndex, evalScrollY, resizesSinceFrame, dualQuiet>>

\* The window is resized to height ih, the page is laid out as secs, and the
\* resize listener runs.
DualResize(ih, secs) ==
  /\ signalsLeft > 0
  /\ innerHeight' = ih
  /\ dualSections' = secs
  /\ \E r \in {dualOnResize(secs, scrollY, ih, currentSpan, nextSpan)} :
       /\ windows' = r.windows
       /\ currentSpan' = r.spans.current
       /\ nextSpan' = r.spans.next
       /\ primaryIndex' = r.spans.primaryIndex
  /\ evalScrollY' = scrollY
  /\ signalsLeft' = signalsLeft - 1
  /\ UNCHANGED <<scrollY, dualStartPx, dualEndPx, running, rafQueue,
                 resizesSinceFrame, dualQuiet>>

\* An animation frame with a registered callback: update(); running = false
DualFrame ==
  /\ rafQueue > 0
  /\ \E u \in {DualUpdate(windows, scrollY, innerHeight, currentSpan, nextSpan)} :
       /\ currentSpan' = u.current
       /\ nextSpan' = u.next
       /\ primaryIndex' = u.primaryIndex
  /\ evalScrollY' = scrollY
  /\ running' = FALSE
  /\ rafQueue' = 0
  /\ UNCHANGED <<scrollY, innerHeight, dualSections, windows, dualStartPx, dualEndPx,
                 signalsLeft, resizesSinceFrame, dualQuiet>>

NextDual ==
  \/ \E y \in DualScrollYs : DualScroll(y)
  \/ \E ih \in ViewportHeights, secs \in DualDocuments : DualResize(ih, secs)
  \/ DualFrame

SpecDual == InitDual /\ [][NextDual]_vars

(***************************************************************************)
(* The progress-to-offset mappings on their own: update() of info.js and   *)
(* of part_000 hand them a progress clamped to [-0.25, 1.25].              *)
(***************************************************************************)
ProgressValues ==
  {Rat(n, PGrid) : n \in {m \in (-PGrid)..(2 * PGrid) :
                            4 * m >= -PGrid /\ 4 * m <= 5 * PGrid}}

InitMap ==
  /\ scrollY = 0
  /\ innerHeight \in ViewportHeights
  /\ InfoIdle
  /\ DualIdle
  /\ PageIdle
  /\ TitleIdle
  /\ mapP \in ProgressValues
  /\ mapQ \in ProgressValues
  /\ infoOut = NotMapped
  /\ holdOut = NotMapped

\* info.js update(), lines 95-114, on mapP and on mapQ
MapInfo ==
  /\ infoOut = NotMapped
  /\ infoOut' = <<MapProgress(mapP, innerHeight), MapProgress(mapQ, innerHeight)>>
  /\ UNCHANGED <<scrollY, innerHeight, infoVars, dualVars, restVars, mapP, mapQ, holdOut>>

\* part_000 holdMapProgressToPx on mapP and on mapQ
MapHold ==
  /\ holdOut = NotMapped
  /\ holdOut' = <<holdMapProgressToPx(mapP, innerHeight),
                  holdMapProgressToPx(mapQ, innerHeight)>>
  /\ UNCHANGED <<scrollY, innerHeight, infoVars, dualVars, restVars, mapP, mapQ, infoOut>>

NextMap == MapInfo \/ MapHold

SpecMap == InitMap /\ [][NextMap]_vars

\* A step that runs the registered frame callbacks (only Frame makes one)
CallbacksRun == rafQueue > 0 /\ rafQueue' = 0

\* Scroll and resize signals are finite in number, and the browser delivers the
\* animation frame of every callback requestAnimationFrame registered.
FairSpec == Init /\ [][Next]_vars /\ WF_rafQueue(CallbacksRun)

(***************************************************************************)
(* src/unnamed/part_000: the two-mode variant, update() and its listeners. *)
(* Its rebuildCache (lines 74-84) builds the entries of info.js plus       *)
(* center = top + height / 2.                                              *)
(***************************************************************************)
MODE == "hold"
LINEAR_START_OFFSET_VH == 35
LINEAR_END_OFFSET_VH == -45

\* #leftLabel before the script has written to it
UntouchedLabel == [visible |-> FALSE, text |-> "", transform |-> NoTransform,
                   opacity |-> ""]

\* const usingLegacy = !leftLabelEl && !!legacyInfoNav
usingLegacy(hasLabel, hasNav) == ~hasLabel /\ hasNav

\* String.prototype.trim on the texts the legacy spans and titles carry
trim(str) == CASE str = " A " -> "A" [] OTHER -> str

\* The texts of the spans of .info-nav, in document order
LegacyTexts == <<" A ", "B">>

\* legacySpans as querySelectorAll('span') finds them
FoundSpans ==
  [i \in 1..Len(LegacyTexts) |->
     [text |-> LegacyTexts[i], active |-> FALSE, transform |-> NoTransform]]

\* showLabel(text)
showLabel(text, hasLabel, hasNav, label, spans) ==
  IF usingLegacy(hasLabel, hasNav)
  THEN [label |-> label,
        spans |-> [i \in DOMAIN spans |->
                     [spans[i] EXCEPT !.active = (trim(spans[i].text) = trim(text))]]]
  ELSE IF ~hasLabel THEN [label |-> label, spans |-> spans]
  ELSE [label |-> [label EXCEPT !.text = text, !.visible = TRUE, !.opacity = "1"],
        spans |-> spans]

\* hideLabel()
hideLabel(hasLabel, hasNav, label, spans) ==
  IF usingLegacy(hasLabel, hasNav)
  THEN [label |-> label,
        spans |-> [i \in DOMAIN spans |-> [spans[i] EXCEPT !.active = FALSE]]]
  ELSE IF ~hasLabel THEN [label |-> label, spans |-> spans]
  ELSE [label |-> [label EXCEPT !.visible = FALSE, !.opacity = "0",
                                !.transform = NoTransform],
        spans |-> spans]

\* linearMapProgressToPx(p)
linearMapProgressToPx(p, ih) ==
  LET startPx == vhToPx(LINEAR_START_OFFSET_VH, ih)
      endPx == vhToPx(LINEAR_END_OFFSET_VH, ih)
  IN  RatAdd(startPx, RatMul(RatSub(endPx, startPx), p))

\* item.center
center(item) == RatAdd(Num(item.top), Rat(item.height, 2))

\* update(), lines 162-171: the entry whose center is nearest the viewport
\* centre, the earlier one on a tie; -1 stands for best = null
RECURSIVE BestLoop(_, _, _, _, _)
BestLoop(c, vc, i, best, bestDistance) ==
  IF i >= Len(c) THEN best
  ELSE LET dist == RatAbs(RatSub(center(c[i + 1]), vc))
       IN  IF DistLt(dist, bestDistance)
           THEN BestLoop(c, vc, i + 1, i, dist)
           ELSE BestLoop(c, vc, i + 1, best, bestDistance)

\* update(), lines 198-211: apply the transform to what showLabel() left
applyTransform(shown, px, hasLabel, hasNav) ==
  IF ~usingLegacy(hasLabel, hasNav) /\ hasLabel
  THEN [label |-> [shown.label EXCEPT !.transform = px], spans |-> shown.spans]
  ELSE IF usingLegacy(hasLabel, hasNav)
  THEN [label |-> shown.label,
        spans |-> [i \in DOMAIN shown.spans |->
                     [shown.spans[i] EXCEPT
                        !.transform = IF shown.spans[i].active THEN px
                                      ELSE NoTransform]]]
  ELSE shown

\* update(), lines 184-193: Map p to translateY
translateYpx(p, ih, h) ==
  IF MODE = "linear"
  THEN linearMapProgressToPx(clamp(p, Num(0), Num(1)), ih)
  ELSE holdMapProgressToPxWith(h, p, ih)

\* update() from line 173 on, for the index best the loop found: the label and
\* the legacy spans it leaves, and the calls of holdMapProgressToPx it made
twoModePresent(c, vc, best, ih, h, hasLabel, hasNav, label, spans) ==
  IF best = -1 \/ c[best + 1].title = ""
  THEN [out |-> hideLabel(hasLabel, hasNav, label, spans),
        chosenIndex |-> best, holdCalls |-> 0]
  ELSE [out |-> applyTransform(
                  showLabel(c[best + 1].title, hasLabel, hasNav, label, spans),
                  translateYpx(clamp(pRaw(c[best + 1], vc), Rat(-25, 100),
                                     Rat(125, 100)), ih, h),
                  hasLabel, hasNav),
        chosenIndex |-> best,
        holdCalls |-> IF MODE = "linear" THEN 0 ELSE 1]

\* update() of part_000
twoModeUpdate(c, sy, ih, h, hasLabel, hasNav, label, spans) ==
  twoModePresent(c, viewportCenterY(sy, ih),
                 BestLoop(c, viewportCenterY(sy, ih), 0, -1, Infinity),
                 ih, h, hasLabel, hasNav, label, spans)

(***************************************************************************)
(* src/unnamed/part_002: the variant that reads offsetTop and offsetHeight *)
(* on every update() and keeps no cache.                                   *)
(***************************************************************************)
holdStart == Rat(15, 100)
holdEnd == Rat(85, 100)
startOffsetVH == 35
endOffsetVH == -45

\* Math.round: the nearest integer, a half rounding up
MathRound(x) == (2 * x[1] + x[2]) \div (2 * x[2])

\* vhToPx(vh): Math.round(window.innerHeight * (vh / 100))
roundedVhToPx(vh, ih) == Num(MathRound(RatMul(Num(ih), Rat(vh, 100))))

\* update(), lines 50-51: progress is within [lo, hi]; a section of height 0
\* gives NaN or an infinity, which no comparison accepts
ProgressWithin(sec, vc, lo, hi) ==
  /\ sec.height # 0
  /\ RatLeq(lo, RatDiv(RatSub(vc, Num(sec.top)), Num(sec.height)))
  /\ RatLeq(RatDiv(RatSub(vc, Num(sec.top)), Num(sec.height)), hi)

\* update(), lines 38-66: activeIndex, -1 when activeSection stays null
RECURSIVE ActiveLoop(_, _, _, _)
ActiveLoop(secs, vc, i, activeIndex) ==
  IF i >= Len(secs) THEN activeIndex
  ELSE IF secs[i + 1].title = "" THEN ActiveLoop(secs, vc, i + 1, activeIndex)
  ELSE IF ProgressWithin(secs[i + 1], vc, Rat(-1, 2), Rat(3, 2))
  THEN IF ProgressWithin(secs[i + 1], vc, Num(0), Num(1)) THEN i
       ELSE ActiveLoop(secs, vc, i + 1, IF activeIndex = -1 THEN i ELSE activeIndex)
  ELSE ActiveLoop(secs, vc, i + 1, activeIndex)

\* update(), lines 85-112: the two-phase model with eased ramps
cachelessMap(p, ih) ==
  LET startPx == roundedVhToPx(startOffsetVH, ih)
      endPx == roundedVhToPx(endOffsetVH, ih)
  IN  IF RatLt(p, holdStart)
      THEN LET t == ease(clamp(RatDiv(p, holdStart), Num(0), Num(1)))
           IN  RatAdd(startPx, RatMul(RatSub(Num(0), startPx), t))
      ELSE IF RatLeq(holdStart, p) /\ RatLeq(p, holdEnd)
      THEN Num(0)
      ELSE LET t == ease(clamp(RatDiv(RatSub(p, holdEnd), RatSub(Num(1), holdEnd)),
                               Num(0), Num(1)))
           IN  RatAdd(Num(0), RatMul(RatSub(endPx, Num(0)), t))

\* update(), lines 85-89: p of the active section
activeProgress(sec, vc) ==
  clamp(RatDiv(RatSub(vc, Num(sec.top)), Num(sec.height)), Rat(-25, 100),
        Rat(125, 100))

\* update() from line 68 on, for the activeIndex the loop found.  Every path
\* dereferences labelEl (line 70 or line 80) before it writes anything, so
\* without the element it throws a TypeError and leaves the state as it was.
cachelessPresent(secs, vc, activeIndex, ih, hasLabel, label) ==
  IF ~hasLabel
  THEN [label |-> label, chosenIndex |-> activeIndex, thrown |-> TRUE]
  ELSE IF activeIndex = -1
  THEN [label |-> [label EXCEPT !.visible = FALSE],
        chosenIndex |-> activeIndex, thrown |-> FALSE]
  ELSE [label |-> [label EXCEPT
                     !.text = secs[activeIndex + 1].title,
                     !.visible = TRUE,
                     !.transform = cachelessMap(
                                     activeProgress(secs[activeIndex + 1], vc), ih)],
        chosenIndex |-> activeIndex, thrown |-> FALSE]

\* update() of part_002
cachelessUpdate(secs, sy, ih, hasLabel, label) ==
  cachelessPresent(secs, viewportCenterY(sy, ih),
                   ActiveLoop(secs, viewportCenterY(sy, ih), 0, -1),
                   ih, hasLabel, label)

(***************************************************************************)
(* A page that loads one of the single-label scripts: src/info.js,         *)
(* src/unnamed/part_000 or src/unnamed/part_002.  The label element, the   *)
(* legacy .info-nav and the sections may be missing from the page, and     *)
(* part_000 may be configured with other thresholds than the shipped ones. *)
(***************************************************************************)
Scripts == {"info.js", "part_000", "part_002"}

PageScrollYs == {0, 30, 60}

\* Pages without sections, with sections of equal heights, and with a tall
\* section followed by a short one
PageDocuments ==
  {<<>>,
   <<[top |-> 0, height |-> 40, title |-> "A"], [top |-> 40, height |-> 40, title |-> "B"]>>,
   <<[top |-> 0, height |-> 60, title |-> "A"], [top |-> 60, height |-> 10, title |-> "B"]>>,
   <<[top |-> 0, height |-> 60, title |-> ""], [top |-> 60, height |-> 10, title |-> "B"]>>}

\* const HOLD as shipped, with ENTRY_START above HOLD_START, and with
\* HOLD_END above EXIT_END
HoldConfigs ==
  {ShippedHOLD,
   [ShippedHOLD EXCEPT !.ENTRY_START = Rat(25, 100), !.HOLD_START = Rat(8, 100)],
   [ShippedHOLD EXCEPT !.HOLD_END = Rat(95, 100)]}

\* The label element as the four variables hold it
LabelNow == [visible |-> labelVisible, text |-> labelText,
             transform |-> labelTransform, opacity |-> labelOpacity]

\* What one update() leaves, in the shape common to the three scripts
FromInfo(u, label, spans) ==
  [label |-> [label EXCEPT !.visible = u.visible, !.text = u.text,
                           !.transform = u.transform],
   spans |-> spans, chosenIndex |-> u.chosenIndex, thrown |-> FALSE, holdCalls |-> 0]

FromTwoMode(u) ==
  [label |-> u.out.label, spans |-> u.out.spans, chosenIndex |-> u.chosenIndex,
   thrown |-> FALSE, holdCalls |-> u.holdCalls]

FromCacheless(u, spans) ==
  [label |-> u.label, spans |-> spans, chosenIndex |-> u.chosenIndex,
   thrown |-> u.thrown, holdCalls |-> 0]

\* One call of update() of the script s
ScriptUpdate(s, secs, c, sy, ih, h, hasLabel, hasNav, label, spans) ==
  IF s = "info.js"
  THEN FromInfo(Update(c, sy, ih, label.text), label, spans)
  ELSE IF s = "part_000"
  THEN FromTwoMode(twoModeUpdate(c, sy, ih, h, hasLabel, hasNav, label, spans))
  ELSE FromCacheless(cachelessUpdate(secs, sy, ih, hasLabel, label), spans)

\* The script returned before init(): no listener, no update()
Inactive ==
  [cache |-> <<>>, label |-> UntouchedLabel, spans |-> <<>>, chosenIndex |-> -1,
   thrown |-> FALSE, holdCalls |-> 0, listeners |-> {}, updateRuns |-> 0]

\* The script registered its two listeners and called update() once
Loaded(c, u) ==
  [cache |-> c, label |-> u.label, spans |-> u.spans, chosenIndex |-> u.chosenIndex,
   thrown |-> u.thrown, holdCalls |-> u.holdCalls,
   listeners |-> {"scroll", "resize"}, updateRuns |-> 1]

\* part_000 init(), lines 240-244: the label is hidden until update() runs
HiddenLabel(hasLabel, hasNav, ih) ==
  IF ~usingLegacy(hasLabel, hasNav) /\ hasLabel
  THEN [UntouchedLabel EXCEPT !.opacity = "0",
                              !.transform = vhToPx(LINEAR_START_OFFSET_VH, ih)]
  ELSE UntouchedLabel

\* part_000, lines 56-59: let legacySpans
SpansFound(hasLabel, hasNav) ==
  IF usingLegacy(hasLabel, hasNav) THEN FoundSpans ELSE <<>>

\* The body of the script s run to its end (or to the TypeError) on a page
\* with the sections secs
Load(s, secs, sy, ih, h, hasLabel, hasNav) ==
  IF s = "info.js"
  THEN IF ~hasLabel \/ Len(secs) = 0 THEN Inactive
       ELSE Loaded(rebuildCache(secs, sy),
                   ScriptUpdate(s, secs, rebuildCache(secs, sy), sy, ih, h, hasLabel,
                                hasNav, UntouchedLabel, <<>>))
  ELSE IF s = "part_000"
  THEN IF Len(secs) = 0 THEN Inactive
       ELSE Loaded(rebuildCache(secs, sy),
                   ScriptUpdate(s, secs, rebuildCache(secs, sy), sy, ih, h, hasLabel,
                                hasNav, HiddenLabel(hasLabel, hasNav, ih),
                                SpansFound(hasLabel, hasNav)))
  ELSE Loaded(<<>>, ScriptUpdate(s, secs, <<>>, sy, ih, h, hasLabel, hasNav,
                                 UntouchedLabel, <<>>))

InitPage ==
  /\ script \in Scripts
  /\ labelEl \in BOOLEAN
  /\ legacyInfoNav \in (IF script = "part_000" THEN BOOLEAN ELSE {FALSE})
  /\ HOLD \in (IF script = "part_000" THEN HoldConfigs ELSE {ShippedHOLD})
  /\ sections \in PageDocuments
  /\ scrollY \in PageScrollYs
  /\ innerHeight \in ViewportHeights
  /\ \E l \in {Load(script, sections, scrollY, innerHeight, HOLD, labelEl,
                    legacyInfoNav)} :
       /\ cache = l.cache
       /\ labelVisible = l.label.visible
       /\ labelText = l.label.text
       /\ labelTransform = l.label.transform
       /\ labelOpacity = l.label.opacity
       /\ legacySpans = l.spans
       /\ chosenIndex = l.chosenIndex
       /\ thrown = l.thrown
       /\ holdCalls = l.holdCalls
       /\ listeners = l.listeners
       /\ updateRuns = l.updateRuns
  /\ ticking = FALSE
  /\ rafQueue = 0
  /\ evalScrollY = scrollY
  /\ signalsLeft = MaxSignals
  /\ scrollsSinceFrame = 0
  /\ resizesSinceFrame = 0
  /\ evalsSinceFrame = 0
  /\ frameScrolls = 0
  /\ frameEvals = 0
  /\ MapIdle
  /\ DualIdle
  /\ TitleIdle

pageQuiet == <<script, labelEl, legacyInfoNav, HOLD, listeners, scrollsSinceFrame,
               resizesSinceFrame, evalsSinceFrame, frameScrolls, frameEvals,
               mapVars, dualVars, titleVars>>

\* The state one call of update() leaves
Updated(u) ==
  /\ labelVisible' = u.label.visible
  /\ labelText' = u.label.text
  /\ labelTransform' = u.label.transform
  /\ labelOpacity' = u.label.opacity
  /\ legacySpans' = u.spans
  /\ chosenIndex' = u.chosenIndex
  /\ thrown' = (thrown \/ u.thrown)
  /\ holdCalls' = holdCalls + u.holdCalls
  /\ updateRuns' = updateRuns + 1
  /\ evalScrollY' = scrollY

\* The page is scrolled to y; onScroll() runs if the script registered it.
PageScroll(y) ==
  /\ signalsLeft > 0
  /\ y # scrollY
  /\ scrollY' = y
  /\ signalsLeft' = signalsLeft - 1
  /\ IF "scroll" \in listeners
     THEN \E s \in {onScroll(ticking, rafQueue)} :
            /\ ticking' = s.ticking
            /\ rafQueue' = s.rafQueue
     ELSE UNCHANGED <<ticking, rafQueue>>
  /\ UNCHANGED <<innerHeight, sections, cache, labelVisible, labelText,
                 labelTransform, labelOpacity, legacySpans, chosenIndex, thrown,
                 holdCalls, updateRuns, evalScrollY, pageQuiet>>

\* The window is resized and the sections are laid out as secs; onResize()
\* runs if the script registered it: rebuildCache() where the script keeps a
\* cache, then update().
PageResize(ih, secs) ==
  /\ signalsLeft > 0
  /\ Len(secs) = Len(sections)
  /\ innerHeight' = ih
  /\ sections' = secs
  /\ signalsLeft' = signalsLeft - 1
  /\ IF "resize" \in listeners
     THEN /\ cache' = IF script = "part_002" THEN cache ELSE rebuildCache(secs, scrollY)
          /\ \E u \in {ScriptUpdate(script, secs, cache', scrollY, ih, HOLD, labelEl,
                                    legacyInfoNav, LabelNow, legacySpans)} :
               Updated(u)
     ELSE UNCHANGED <<cache, labelVisible, labelText, labelTransform, labelOpacity,
                      legacySpans, chosenIndex, thrown, holdCalls, updateRuns,
                      evalScrollY>>
  /\ UNCHANGED <<scrollY, ticking, rafQueue, pageQuiet>>

\* An animation frame with a registered callback: update(); ticking = false.
\* When update() throws, the assignment after it is not reached.
PageFrame ==
  /\ rafQueue > 0
  /\ rafQueue' = 0
  /\ \E u \in {ScriptUpdate(script, sections, cache, scrollY, innerHeight, HOLD,
                            labelEl, legacyInfoNav, LabelNow, legacySpans)} :
       /\ Updated(u)
       /\ ticking' = IF u.thrown THEN ticking ELSE FALSE
  /\ UNCHANGED <<scrollY, innerHeight, sections, cache, signalsLeft, pageQuiet>>

NextPage ==
  \/ \E y \in PageScrollYs : PageScroll(y)
  \/ \E ih \in ViewportHeights, secs \in PageDocuments : PageResize(ih, secs)
  \/ PageFrame

SpecPage == InitPage /\ [][NextPage]_vars

(***************************************************************************)
(* src/unnamed/part_003, lines 1-25: the fade-title script.  updateTitle() *)
(* runs once when the document is loaded and on every scroll event; a      *)
(* title change is written by a timer callback 300 ms later.  All timers   *)
(* have the same delay, so they fire in the order they were set.           *)
(***************************************************************************)
TitleScrollYs == {0, 100, 400, 450}

\* The .info-section elements: none, or three sections 300 px apart
TitleDocuments ==
  {<<>>,
   <<[offsetTop |-> 0, title |-> "A"], [offsetTop |-> 300, title |-> "B"],
     [offsetTop |-> 600, title |-> "C"]>>}

\* The text #dynamic-title carries in the markup
MarkupTitles == {"", "A"}

\* let index = sections.length; while (--index && scrollY + 200 < sections[index].offsetTop) {}
\* Without sections --index is -1 and sections[-1].offsetTop throws: -1 stands
\* for the TypeError.
RECURSIVE IndexLoop(_, _, _)
IndexLoop(secs, sy, index) ==
  IF index - 1 < 0 THEN -1
  ELSE IF index - 1 # 0 /\ sy + 200 < secs[index].offsetTop
  THEN IndexLoop(secs, sy, index - 1)
  ELSE index - 1

\* updateTitle() from line 10 on, for the index the loop stopped at
fadeTo(secs, index, el, pending) ==
  IF index = -1
  THEN [el |-> el, timers |-> pending, thrown |-> TRUE]
  ELSE IF el.textContent # secs[index + 1].title
  THEN [el |-> [el EXCEPT !.classList = (@ \ {"fade-in"}) \cup {"fade-out"}],
        timers |-> Append(pending, secs[index + 1].title),
        thrown |-> FALSE]
  ELSE [el |-> el, timers |-> pending, thrown |-> FALSE]

\* updateTitle()
updateTitle(secs, sy, el, pending) ==
  fadeTo(secs, IndexLoop(secs, sy, Len(secs)), el, pending)

\* The callback handed to setTimeout, for the newTitle it closed over
timerCallback(el, newTitle) ==
  [el EXCEPT !.textContent = newTitle,
             !.classList = (@ \ {"fade-out"}) \cup {"fade-in"}]

\* DOMContentLoaded: updateTitle(); then the scroll listener is registered,
\* unless updateTitle() threw
InitTitle ==
  /\ scrollY \in TitleScrollYs
  /\ innerHeight \in ViewportHeights
  /\ titleSections \in TitleDocuments
  /\ \E text \in MarkupTitles :
       \E u \in {updateTitle(titleSections, scrollY,
                             [textContent |-> text, classList |-> {}], <<>>)} :
         /\ dynamicTitle = u.el
         /\ timers = u.timers
         /\ thrown = u.thrown
         /\ listeners = IF u.thrown THEN {} ELSE {"scroll"}
  /\ signalsLeft = MaxSignals
  /\ script = "fade-title"
  /\ labelEl = FALSE
  /\ legacyInfoNav = FALSE
  /\ HOLD = ShippedHOLD
  /\ updateRuns = 0
  /\ holdCalls = 0
  /\ labelOpacity = ""
  /\ legacySpans = <<>>
  /\ sections = <<>>
  /\ cache = <<>>
  /\ labelVisible = FALSE
  /\ labelText = ""
  /\ labelTransform = NoTransform
  /\ ticking = FALSE
  /\ rafQueue = 0
  /\ chosenIndex = -1
  /\ evalScrollY = 0
  /\ scrollsSinceFrame = 0
  /\ resizesSinceFrame = 0
  /\ evalsSinceFrame = 0
  /\ frameScrolls = 0
  /\ frameEvals = 0
  /\ MapIdle
  /\ DualIdle

titleQuiet == <<innerHeight, infoVars, mapVars, dualVars, pageVars>>

\* The page is scrolled to y; updateTitle() runs if it is registered.
TitleScroll(y) ==
  /\ signalsLeft > 0
  /\ y # scrollY
  /\ scrollY' = y
  /\ signalsLeft' = signalsLeft - 1
  /\ IF "scroll" \in listeners
     THEN \E u \in {updateTitle(titleSections, y, dynamicTitle, timers)} :
            /\ dynamicTitle' = u.el
            /\ timers' = u.timers
            /\ thrown' = (thrown \/ u.thrown)
     ELSE UNCHANGED <<dynamicTitle, timers, thrown>>
  /\ UNCHANGED <<innerHeight, titleSections, sections, cache, labelVisible, labelText,
                 labelTransform, ticking, rafQueue, chosenIndex, evalScrollY,
                 scrollsSinceFrame, resizesSinceFrame, evalsSinceFrame, frameScrolls,
                 frameEvals, mapVars, dualVars, script, labelEl, legacyInfoNav, HOLD,
                 listeners, updateRuns, holdCalls, labelOpacity, legacySpans>>

\* The oldest pending timer fires.
TimerFires ==
  /\ timers # <<>>
  /\ dynamicTitle' = timerCallback(dynamicTitle, Head(timers))
  /\ timers' = Tail(timers)
  /\ UNCHANGED <<scrollY, titleSections, titleQuiet>>

NextTitle ==
  \/ \E y \in TitleScrollYs : TitleScroll(y)
  \/ TimerFires

SpecTitle == InitTitle /\ [][NextTitle]_vars

(***************************************************************************)
(* Properties of src/info.js.                                              *)
(***************************************************************************)
\* The viewport centre the latest update() computed
EvalCenter == viewportCenterY(evalScrollY, innerHeight)

\* Section i (JavaScript index) contains the centre vc: 0 <= (vc - top)/height <= 1
Contains(i, vc) ==
  /\ RatLeq(Num(cache[i + 1].top), vc)
  /\ RatLeq(vc, Num(cache[i + 1].top + cache[i + 1].height))

Indices == 0..(Len(cache) - 1)

Strict == {i \in Indices : Contains(i, EvalCenter)}

\* |p_i - 0.5| on the unclamped progress of section i
RawDistance(i) == RatAbs(RatSub(pRaw(cache[i + 1], EvalCenter), Rat(1, 2)))

NearestRaw ==
  CHOOSE i \in Indices :
    /\ \A j \in Indices : RatLeq(RawDistance(i), RawDistance(j))
    /\ \A j \in Indices : j < i => RatLt(RawDistance(i), RawDistance(j))

\* C1: whenever some cached section has progress in [0,1], update() chooses the
\* lowest-index such section, and the offset applied is the mapping of that
\* section's own progress.
C1_FirstStrictCandidateChosen ==
  Strict # {} =>
    /\ chosenIndex \in Strict
    /\ \A i \in Strict : chosenIndex <= i
    /\ labelVisible =>
         labelTransform =
           MapProgress(pRaw(cache[chosenIndex + 1], EvalCenter), innerHeight)

\* C1 witness: a frame callback evaluated a viewport centre that two overlapping
\* sections contain, and the first one is shown.
C1_Witness ==
  /\ Cardinality(Strict) = 2
  /\ chosenIndex = 0
  /\ labelVisible
  /\ cache[2].top < cache[1].top + cache[1].height
  /\ frameEvals = 1
  /\ evalsSinceFrame = 0

\* C2 (as claimed): whenever no cached section has progress in [0,1], update()
\* chooses the section whose unclamped progress is closest to 0.5, the earliest
\* one on ties.
C2_NearestRawProgressChosen ==
  Strict = {} => chosenIndex = NearestRaw

\* C4: at most one frame callback is pending, ticking is true exactly while one
\* is pending, one or more scroll signals since the latest frame leave exactly
\* one callback pending, and the frame that follows them ran update() once.
C4_OneEvaluationPerScrollBurst ==
  /\ rafQueue <= 1
  /\ ticking <=> rafQueue = 1
  /\ scrollsSinceFrame >= 1 => rafQueue = 1
  /\ frameScrolls >= 1 => frameEvals = 1
  /\ frameScrolls = 0 => frameEvals = 0

\* C4 witness: a frame that followed a burst of scroll signals ran update() once.
C4_Witness == frameScrolls >= 2 /\ frameEvals = 1 /\ ~ticking

\* C5: every evaluation over a non-empty cache chooses a section; the label is
\* visible exactly when that section's title is non-empty, then shows that title
\* with a translateY; otherwise it is hidden with its transform reset.
C5_VisibleIffChosenTitled ==
  Len(cache) > 0 =>
    /\ chosenIndex \in Indices
    /\ labelVisible <=> cache[chosenIndex + 1].title # ""
    /\ labelVisible =>
         /\ labelText = cache[chosenIndex + 1].title
         /\ labelTransform # NoTransform
    /\ ~labelVisible => labelTransform = NoTransform

\* C5 witness: the chosen section is untitled while another section has a
\* title, and the label is hidden.
C5_Witness ==
  /\ chosenIndex \in Indices
  /\ cache[chosenIndex + 1].title = ""
  /\ \E j \in Indices : cache[j + 1].title # ""
  /\ ~labelVisible
  /\ evalsSinceFrame > 0

\* C7 (as claimed): between two consecutive frames update() runs at most once,
\* whatever mix of scroll and resize signals arrives: the runs made since the
\* latest frame plus the one pending for the next frame are at most one.
C7_AtMostOneEvaluationPerFrame == evalsSinceFrame + rafQueue <= 1

\* C7 (amended): only scroll signals are throttled, to one pending callback and
\* one update() per frame; every resize signal runs update() once at once,
\* pending callback or not, and leaves the pending callback in place.
C7_ScrollThrottledResizeImmediate ==
  /\ rafQueue <= 1
  /\ frameEvals <= 1
  /\ evalsSinceFrame = resizesSinceFrame
  /\ scrollsSinceFrame >= 1 => ticking /\ rafQueue = 1

\* C7 witness: two resize signals arrived while a frame callback was pending and
\* each ran update().
C7_Witness ==
  /\ ticking
  /\ rafQueue = 1
  /\ resizesSinceFrame = 2
  /\ evalsSinceFrame = 2

\* The label as presented equals a fresh evaluation of the current scroll
\* position, and no frame callback is pending.
Settled ==
  /\ ~ticking
  /\ rafQueue = 0
  /\ \E u \in {Update(cache, scrollY, innerHeight, labelText)} :
       /\ labelVisible = u.visible
       /\ labelText = u.text
       /\ labelTransform = u.transform

\* C8: once the signals have stopped and the requested frames have fired, the
\* label presents the evaluation of the final scroll position and ticking is
\* false, for good.
C8_FinalPositionPresented == <>[]Settled

\* C8 witness: the last of several scroll signals was coalesced into a pending
\* callback, the frame fired, and the label shows the final position.
C8_Witness ==
  /\ signalsLeft = 0
  /\ frameScrolls >= 2
  /\ evalScrollY = scrollY
  /\ Settled
  /\ labelVisible

(***************************************************************************)
(* Properties of the progress-to-offset mappings.                          *)
(***************************************************************************)
StartPx == vhToPx(HOLD_START_OFFSET_VH, innerHeight)

EndPx == vhToPx(HOLD_END_OFFSET_VH, innerHeight)

Lerp(a, b, t) == RatAdd(a, RatMul(RatSub(b, a), t))

EntryT(p) ==
  RatDiv(RatSub(p, HOLD_ENTRY_START), RatSub(HOLD_HOLD_START, HOLD_ENTRY_START))

ExitT(p) ==
  RatDiv(RatSub(p, HOLD_HOLD_END), RatSub(HOLD_EXIT_END, HOLD_HOLD_END))

\* The five-phase hold profile with the smoothstep on both ramps
EasedHoldProfile(p) ==
  CASE RatLeq(p, HOLD_ENTRY_START) -> StartPx
    [] RatLt(HOLD_ENTRY_START, p) /\ RatLt(p, HOLD_HOLD_START) ->
         Lerp(StartPx, Num(0), ease(EntryT(p)))
    [] RatLeq(HOLD_HOLD_START, p) /\ RatLeq(p, HOLD_HOLD_END) -> Num(0)
    [] RatLt(HOLD_HOLD_END, p) /\ RatLt(p, HOLD_EXIT_END) ->
         Lerp(Num(0), EndPx, ease(ExitT(p)))
    [] RatLeq(HOLD_EXIT_END, p) -> EndPx

\* The five-phase hold profile with linear ramps
LinearHoldProfile(p) ==
  CASE RatLeq(p, HOLD_ENTRY_START) -> StartPx
    [] RatLt(HOLD_ENTRY_START, p) /\ RatLt(p, HOLD_HOLD_START) ->
         Lerp(StartPx, Num(0), EntryT(p))
    [] RatLeq(HOLD_HOLD_START, p) /\ RatLeq(p, HOLD_HOLD_END) -> Num(0)
    [] RatLt(HOLD_HOLD_END, p) /\ RatLt(p, HOLD_EXIT_END) ->
         Lerp(Num(0), EndPx, ExitT(p))
    [] RatLeq(HOLD_EXIT_END, p) -> EndPx

\* C3 (as claimed): for every p in [-0.25, 1.25], holdMapProgressToPx(p) is the
\* five-phase hold profile with ease(t) = t*t*(3-2t) applied on both ramps.
C3_HoldProfileEased ==
  holdOut # NotMapped =>
    /\ holdOut[1] = EasedHoldProfile(mapP)
    /\ holdOut[2] = EasedHoldProfile(mapQ)

\* C3 (amended): for every p in [-0.25, 1.25], holdMapProgressToPx(p) is the
\* five-phase hold profile with linear ramps: lerp(startPx, 0, t) on entry and
\* lerp(0, endPx, t) on exit, no smoothstep applied.
C3_HoldProfileLinear ==
  holdOut # NotMapped =>
    /\ holdOut[1] = LinearHoldProfile(mapP)
    /\ holdOut[2] = LinearHoldProfile(mapQ)

\* C3 witness: holdMapProgressToPx was applied strictly inside the entry ramp
\* and strictly inside the exit ramp.
C3_Witness ==
  /\ holdOut # NotMapped
  /\ RatLt(HOLD_ENTRY_START, mapP) /\ RatLt(mapP, HOLD_HOLD_START)
  /\ RatLt(HOLD_HOLD_END, mapQ) /\ RatLt(mapQ, HOLD_EXIT_END)
  /\ RatLt(Num(0), holdOut[1]) /\ RatLt(holdOut[1], StartPx)
  /\ RatLt(EndPx, holdOut[2]) /\ RatLt(holdOut[2], Num(0))

\* C9: with startPx > 0 > endPx both mappings are monotonically non-increasing:
\* p1 <= p2 in [-0.25, 1.25] implies offset(p1) >= offset(p2), for the eased
\* three-phase mapping of info.js and for holdMapProgressToPx.
C9_OffsetNonIncreasing ==
  /\ RatLt(EndPx, Num(0)) /\ RatLt(Num(0), StartPx)
  /\ RatLeq(mapP, mapQ) =>
       /\ infoOut # NotMapped => RatLeq(infoOut[2], infoOut[1])
       /\ holdOut # NotMapped => RatLeq(holdOut[2], holdOut[1])

\* C9 witness: both mappings were applied to p1 < p2 on a ramp and the offset
\* strictly decreased.
C9_Witness ==
  /\ infoOut # NotMapped
  /\ holdOut # NotMapped
  /\ RatLt(mapP, mapQ)
  /\ RatLt(Num(0), mapP)
  /\ RatLt(mapQ, HOLD_START)
  /\ RatLt(infoOut[2], infoOut[1])
  /\ RatLt(holdOut[2], holdOut[1])

(***************************************************************************)
(* Properties of the dual-label variant (src/unnamed/part_003).            *)
(***************************************************************************)
\* The viewport centre the latest update() of part_003 computed
DualEvalCenter == RatAdd(Num(evalScrollY), Rat(innerHeight, 2))

DualIndices == 0..(Len(windows) - 1)

\* The sections whose active window [start, end] holds the viewport centre
DualContaining == {i \in DualIndices : InWindow(windows[i + 1], DualEvalCenter)}

\* START_OFFSET_VH and END_OFFSET_VH percent of the viewport height as it is now
FreshStartPx == Rat(innerHeight * DUAL_START_OFFSET_VH, 100)

FreshEndPx == Rat(innerHeight * DUAL_END_OFFSET_VH, 100)

\* C6 (as claimed): every evaluation maps progress to pixels with start and end
\* offsets of START_OFFSET_VH and END_OFFSET_VH percent of the viewport height
\* current at that evaluation, also after a resize changed the height.
C6_OffsetsFromCurrentViewport ==
  primaryIndex # -1 =>
    currentSpan.transform =
      RatAdd(FreshStartPx,
             RatMul(RatSub(FreshEndPx, FreshStartPx),
                    computeP(windows[primaryIndex + 1], DualEvalCenter)))

\* C10 (as claimed): when the viewport centre lies within the active windows of
\* two or more sections, the primary section is the first of them in document
\* order.
C10_FirstContainingWindowPrimary ==
  Cardinality(DualContaining) >= 2 =>
    /\ primaryIndex \in DualContaining
    /\ \A i \in DualContaining : primaryIndex <= i

\* The distance of section i's window centre (start + end) / 2 from the
\* viewport centre of the latest update()
WindowDistance(i) ==
  RatAbs(RatSub(RatDiv(RatAdd(windows[i + 1].start, windows[i + 1].end), Num(2)),
                DualEvalCenter))

\* C11 (as claimed): when the viewport centre lies in no section's active
\* window, the primary section is the one whose window centre is closest to
\* the viewport centre, and the secondary is the section right after it.
C11_NearestWindowCenterPrimary ==
  (DualContaining = {} /\ DualIndices # {}) =>
    /\ primaryIndex \in DualIndices
    /\ \A i \in DualIndices :
         RatLeq(WindowDistance(primaryIndex), WindowDistance(i))
    /\ currentSpan.text = windows[primaryIndex + 1].title
    /\ IF primaryIndex + 1 < Len(windows)
       THEN nextSpan.text = windows[primaryIndex + 2].title /\ nextSpan.opacity = "1"
       ELSE nextSpan.opacity = "0"

(***************************************************************************)
(* Properties of a page that loads a single-label script.                  *)
(***************************************************************************)
\* The page has no section, or nothing the script could present a title in
NothingToPresent ==
  \/ Len(sections) = 0
  \/ ~labelEl /\ (script = "part_000" => ~legacyInfoNav)

\* C12 (as claimed): with zero sections or without the label element (for
\* part_000: with neither #leftLabel nor .info-nav) the script is inactive: it
\* registers no scroll or resize listener, never runs update() and never
\* throws, whichever of info.js, part_000 and part_002 the page loads.
C12_InactiveWithoutSectionsOrLabel ==
  NothingToPresent => (listeners = {} /\ updateRuns = 0 /\ ~thrown)

\* 0 <= entryStart < holdStart <= holdEnd < exitEnd <= 1
ValidThresholds(h) ==
  /\ RatLeq(Num(0), h.ENTRY_START)
  /\ RatLt(h.ENTRY_START, h.HOLD_START)
  /\ RatLeq(h.HOLD_START, h.HOLD_END)
  /\ RatLt(h.HOLD_END, h.EXIT_END)
  /\ RatLeq(h.EXIT_END, Num(1))

\* C13 (as claimed): thresholds that violate the ordering are rejected at
\* initialization of part_000: init() registers no listener and does not call
\* update(), and holdMapProgressToPx is never evaluated with them.
C13_InvalidThresholdsRejected ==
  (script = "part_000" /\ ~ValidThresholds(HOLD)) =>
    (listeners = {} /\ updateRuns = 0 /\ holdCalls = 0)

\* C14 (as claimed): whenever the viewport centre of the latest update() of
\* part_000 lies inside the extent of some cached section, that update()
\* selected a section containing the centre, the first one in document order.
C14_TwoModeSelectsContainingSection ==
  (script = "part_000" /\ updateRuns > 0 /\ Strict # {}) =>
    (chosenIndex \in Strict /\ \A i \in Strict : chosenIndex <= i)

(***************************************************************************)
(* Properties of the fade-title script (src/unnamed/part_003, lines 1-25). *)
(***************************************************************************)
\* The data-title of the section updateTitle() finds for the scroll position
\* as it is now
CurrentTitle == titleSections[IndexLoop(titleSections, scrollY, Len(titleSections)) + 1].title

\* C15 (as claimed): whenever no timer is pending, however scroll events and
\* timer callbacks interleaved before, the title displayed is the data-title of
\* the section the current scroll position determines: no delayed write leaves
\* the title of a section that is no longer current.
C15_TitleOfCurrentSectionOnceTimersFired ==
  (titleSections # <<>> /\ timers = <<>>) => dynamicTitle.textContent = CurrentTitle

====
